---- MODULE Spec2Model ----
(***************************************************************************)
(* Relative permeability and fraction flow calculator (src/app.py).        *)
(*                                                                         *)
(* The numeric kernel (effective_saturation, corey_kr, pirson_kr,          *)
(* wyllie_gardner_kr, fraction_flow) and the Streamlit script that drives  *)
(* it (sidebar widgets, the compute button, the compute block and the      *)
(* export buttons).                                                        *)
(*                                                                         *)
(* Numbers.  A number is <<n, d, s>> and stands for (n / d) * 10^s, kept   *)
(* in lowest terms with every factor of ten moved into s, so that equal    *)
(* values are equal tuples and 1e-12 is <<1, 1, -12>>.  d = 0 marks the    *)
(* IEEE special values the code can produce by dividing by zero:           *)
(* <<0,0,0>> is NaN, <<1,0,0>> is +inf and <<-1,0,0>> is -inf.             *)
(* +, -, * and / are exact; float64 rounding, overflow, underflow and the  *)
(* sign of zero are not modelled.  A power with a half-integer exponent    *)
(* takes a square root, which is rounded down to a multiple of             *)
(* 1 / (d * SqrtRes) and is exact whenever the root is rational.           *)
(***************************************************************************)
EXTENDS Integers, Sequences, FiniteSets, TLC

\* ------------------------------------------------------------------------
\* Bounds of the model
\* ------------------------------------------------------------------------

\* The sweep has GridN intervals (GridN + 1 samples); the code uses 200.
GridN == 10

\* Resolution of a rounded square root.
SqrtRes == 16

\* ------------------------------------------------------------------------
\* Arithmetic
\* ------------------------------------------------------------------------

Abs(i) == IF i < 0 THEN -i ELSE i

Sgn(i) == IF i < 0 THEN -1 ELSE IF i = 0 THEN 0 ELSE 1

\* The arithmetic is written as functions: a function is applied to the
\* values of its arguments, as a Python call is.

GCD[a \in Nat, b \in Nat] == IF b = 0 THEN a ELSE GCD[b, a % b]

LCM[a \in Nat, b \in Nat] == (a \div GCD[a, b]) * b

Pow10[k \in Nat] == IF k = 0 THEN 1 ELSE 10 * Pow10[k - 1]

IPow[b \in Int, k \in Nat] == IF k = 0 THEN 1 ELSE b * IPow[b, k - 1]

Num == Int \X Int \X Int

NaN == <<0, 0, 0>>
PosInf == <<1, 0, 0>>
NegInf == <<-1, 0, 0>>

IsNaN(x) == x = NaN
IsInf(x) == x = PosInf \/ x = NegInf
IsFinite(x) == x[2] # 0

\* Moves the factors of ten of n / d into the scale s.
Strip[n \in Int, d \in Int, s \in Int] ==
    IF n % 10 = 0 THEN Strip[n \div 10, d, s + 1]
    ELSE IF d % 10 = 0 THEN Strip[n, d \div 10, s - 1]
    ELSE <<n, d, s>>

\* The number (n / d) * 10^s, d >= 0, in normal form.
Norm[n \in Int, d \in Int, s \in Int] ==
    IF d = 0 THEN <<Sgn(n), 0, 0>>
    ELSE IF n = 0 THEN <<0, 1, 0>>
    ELSE LET g == GCD[Abs(n), d] IN Strip[n \div g, d \div g, s]

\* A decimal literal n / d, such as 0.2 == Dec(2, 10).
Dec(n, d) == Norm[n, d, 0]

Zero == Dec(0, 1)
One == Dec(1, 1)

Neg[x \in Num] == <<-x[1], x[2], x[3]>>

\* Finite x as a plain fraction <<n, d>>.
Frac[x \in Num] ==
    IF x[3] >= 0 THEN <<x[1] * Pow10[x[3]], x[2]>>
    ELSE <<x[1], x[2] * Pow10[-x[3]]>>

\* Sign of p / q - r / t for naturals p, r and positive q, t, by comparing
\* whole parts and then the remainders' reciprocals, so that no product is
\* formed.
CmpFrac[p \in Nat, q \in Nat, r \in Nat, t \in Nat] ==
    IF p \div q # r \div t THEN Sgn((p \div q) - (r \div t))
    ELSE IF p % q = 0 \/ r % t = 0 THEN Sgn(Sgn(p % q) - Sgn(r % t))
    ELSE CmpFrac[t, r % t, q, p % q]

\* Sign of a - b for finite a, b.  Scales more than nine apart decide the
\* comparison by themselves, every integer of the model being below 10^10.
Cmp[a \in Num, b \in Num] ==
    IF Sgn(a[1]) # Sgn(b[1]) THEN Sgn(Sgn(a[1]) - Sgn(b[1]))
    ELSE IF a[1] = 0 THEN 0
    ELSE LET sg == Sgn(a[1])
             k == a[3] - b[3]
         IN  IF k > 9 THEN sg
             ELSE IF k < -9 THEN -sg
             ELSE IF k >= 0
                  THEN sg * CmpFrac[Abs(a[1]), a[2], Abs(b[1]), b[2] * Pow10[k]]
                  ELSE sg * CmpFrac[Abs(a[1]), a[2] * Pow10[-k], Abs(b[1]), b[2]]

\* Comparisons as IEEE defines them: every comparison with NaN is false.
Le[a \in Num, b \in Num] ==
    IF IsNaN(a) \/ IsNaN(b) THEN FALSE
    ELSE IF a = b THEN TRUE
    ELSE IF a = NegInf \/ b = PosInf THEN TRUE
    ELSE IF a = PosInf \/ b = NegInf THEN FALSE
    ELSE Cmp[a, b] <= 0

Lt[a \in Num, b \in Num] == Le[a, b] /\ a # b

Add[a \in Num, b \in Num] ==
    IF IsNaN(a) \/ IsNaN(b) THEN NaN
    ELSE IF IsInf(a) /\ IsInf(b) THEN (IF a = b THEN a ELSE NaN)
    ELSE IF IsInf(a) THEN a
    ELSE IF IsInf(b) THEN b
    ELSE LET s == IF a[3] < b[3] THEN a[3] ELSE b[3]
             l == LCM[a[2], b[2]]
         IN  Norm[a[1] * Pow10[a[3] - s] * (l \div a[2])
                    + b[1] * Pow10[b[3] - s] * (l \div b[2]), l, s]

Sub[a \in Num, b \in Num] == Add[a, Neg[b]]

Mul[a \in Num, b \in Num] ==
    IF IsNaN(a) \/ IsNaN(b) THEN NaN
    ELSE IF IsInf(a) \/ IsInf(b)
         THEN (IF a = Zero \/ b = Zero THEN NaN
               ELSE <<Sgn(a[1]) * Sgn(b[1]), 0, 0>>)
    ELSE IF a = Zero \/ b = Zero THEN Zero
    ELSE LET g1 == GCD[Abs(a[1]), b[2]]
             g2 == GCD[Abs(b[1]), a[2]]
         IN  Norm[(a[1] \div g1) * (b[1] \div g2),
                  (a[2] \div g2) * (b[2] \div g1), a[3] + b[3]]

\* numpy's float division: x / 0 is +-inf, 0 / 0 is NaN, nothing is raised.
Div[a \in Num, b \in Num] ==
    IF IsNaN(a) \/ IsNaN(b) THEN NaN
    ELSE IF IsInf(a) THEN (IF IsInf(b) THEN NaN
                           ELSE <<Sgn(a[1]) * (IF b[1] < 0 THEN -1 ELSE 1), 0, 0>>)
    ELSE IF IsInf(b) THEN Zero
    ELSE IF b = Zero THEN <<Sgn(a[1]), 0, 0>>
    ELSE Mul[a, <<Sgn(b[1]) * b[2], Abs(b[1]), -b[3]>>]

\* Largest r with r * r <= k, for lo * lo <= k < hi * hi.
ISqrtIn[k \in Nat, lo \in Nat, hi \in Nat] ==
    IF hi - lo <= 1 THEN lo
    ELSE IF ((lo + hi) \div 2) * ((lo + hi) \div 2) <= k
         THEN ISqrtIn[k, (lo + hi) \div 2, hi]
         ELSE ISqrtIn[k, lo, (lo + hi) \div 2]

ISqrt[k \in Nat] == ISqrtIn[k, 0, 46340]

\* Square root of a finite x >= 0, rounded down to a multiple of
\* 1 / (d * SqrtRes); exact when x is the square of a rational.
Sqrt[x \in Num] ==
    Norm[ISqrt[Frac[x][1] * Frac[x][2] * SqrtRes * SqrtRes], Frac[x][2] * SqrtRes, 0]

\* x to a whole power k.
IntPow[x \in Num, k \in Nat] == Norm[IPow[Frac[x][1], k], IPow[Frac[x][2], k], 0]

\* x ** e for an exponent e > 0 that is a multiple of 0.5: x to the whole
\* part of e, times the square root of x for a remaining half.  As in
\* numpy, a negative x to a fractional power is NaN.
Pow[x \in Num, e \in Num] ==
    LET h == Frac[Mul[e, Dec(2, 1)]][1]
    IN  IF IsNaN(x) THEN NaN
        ELSE IF IsInf(x) THEN (IF x = NegInf /\ h % 4 = 2 THEN NegInf ELSE PosInf)
        ELSE IF h % 2 = 0 THEN IntPow[x, h \div 2]
        ELSE IF x[1] < 0 THEN NaN
        ELSE Mul[IntPow[x, h \div 2], Sqrt[x]]

\* np.clip(x, lo, hi): minimum(maximum(x, lo), hi); NaN stays NaN.
Clip[x \in Num, lo \in Num, hi \in Num] ==
    IF IsNaN(x) THEN NaN
    ELSE IF Le[hi, IF Le[x, lo] THEN lo ELSE x] THEN hi
    ELSE IF Le[x, lo] THEN lo ELSE x

\* np.nan_to_num(x, nan=0.0, posinf=0.0, neginf=0.0)
NanToNum[x \in Num] == IF IsFinite(x) THEN x ELSE Zero

\* ------------------------------------------------------------------------
\* Relative permeability models
\* ------------------------------------------------------------------------

\* The floor substituted for a zero denominator, 1e-12.
Eps == Norm[1, 1, -12]

\* Variants of effective_saturation that each drop one of its steps.

\* np.clip with an upper limit of 2.0 instead of 1.0.
effective_saturation_wide_clip(Sw_, Swc_, Sor_) ==
    LET denom0 == Sub[Sub[One, Swc_], Sor_]
        denom == IF denom0 = Zero THEN Eps ELSE denom0
    IN  Clip[Div[Sub[Sw_, Swc_], denom], Zero, Dec(2, 1)]

\* Without the np.where that replaces a zero denominator.
effective_saturation_unguarded(Sw_, Swc_, Sor_) ==
    Clip[Div[Sub[Sw_, Swc_], Sub[Sub[One, Swc_], Sor_]], Zero, One]

\* With the denominator 1.0 - Swc.
effective_saturation_no_sor(Sw_, Swc_, Sor_) ==
    LET denom0 == Sub[One, Swc_]
        denom == IF denom0 = Zero THEN Eps ELSE denom0
    IN  Clip[Div[Sub[Sw_, Swc_], denom], Zero, One]

\* With 1.0 instead of 1e-12 for a zero denominator.
effective_saturation_unit_floor(Sw_, Swc_, Sor_) ==
    LET denom0 == Sub[Sub[One, Swc_], Sor_]
        denom == IF denom0 = Zero THEN One ELSE denom0
    IN  Clip[Div[Sub[Sw_, Swc_], denom], Zero, One]

effective_saturation(Sw_, Swc_, Sor_) ==
    LET denom0 == Sub[Sub[One, Swc_], Sor_]
        denom == IF denom0 = Zero THEN Eps ELSE denom0
        Sstar0 == Div[Sub[Sw_, Swc_], denom]
    IN  Clip[Sstar0, Zero, One]

\* corey_kr with the two phases exchanged.
corey_kr_swapped(Sw_, Swc_, Sor_, krw0_, kro0_, nw_, no_) ==
    LET S == effective_saturation(Sw_, Swc_, Sor_)
    IN  <<Mul[krw0_, Pow[Sub[One, S], nw_]], Mul[kro0_, Pow[S, no_]]>>

\* Each model returns <<krw, kro>>.
corey_kr(Sw_, Swc_, Sor_, krw0_, kro0_, nw_, no_) ==
    LET S == effective_saturation(Sw_, Swc_, Sor_)
    IN  <<Mul[krw0_, Pow[S, nw_]], Mul[kro0_, Pow[Sub[One, S], no_]]>>

pirson_kr(Sw_, Swc_, Sor_, krw0_, kro0_) ==
    LET S == effective_saturation(Sw_, Swc_, Sor_)
    IN  <<Mul[krw0_, Pow[S, Dec(2, 1)]], Mul[kro0_, Pow[Sub[One, S], Dec(2, 1)]]>>

wyllie_gardner_kr(Sw_, Swc_, Sor_, krw0_, kro0_) ==
    LET S == effective_saturation(Sw_, Swc_, Sor_)
    IN  <<Mul[krw0_, Pow[S, Dec(15, 10)]], Mul[kro0_, Pow[Sub[One, S], Dec(15, 10)]]>>

\* The registry's keys, in the order the select box lists them.
MODEL_FUNCS == <<"Corey", "Pirson", "Wyllie-Gardner">>

ModelKeys == {MODEL_FUNCS[i] : i \in 1..Len(MODEL_FUNCS)}

\* MODEL_FUNCS.get(model): the function registered under the key, or None.
GetModelFunc(key) == IF key \in ModelKeys THEN key ELSE "None"

\* A dispatch that hands the exponents to whichever model is selected.
CallModelExponents(func, key, Sw_, Swc_, Sor_, krw0_, kro0_, nw_, no_) ==
    corey_kr(Sw_, Swc_, Sor_, krw0_, kro0_, nw_, no_)

\* func(...) as the compute block calls it: with the exponents for 'Corey',
\* without them otherwise.  func is the registered function, named by its key.
CallModel(func, key, Sw_, Swc_, Sor_, krw0_, kro0_, nw_, no_) ==
    IF key = "Corey"
    THEN corey_kr(Sw_, Swc_, Sor_, krw0_, kro0_, nw_, no_)
    ELSE IF func = "Pirson" THEN pirson_kr(Sw_, Swc_, Sor_, krw0_, kro0_)
    ELSE wyllie_gardner_kr(Sw_, Swc_, Sor_, krw0_, kro0_)

\* ------------------------------------------------------------------------
\* Fraction flow
\* ------------------------------------------------------------------------

\* fraction_flow without np.nan_to_num.
fraction_flow_raw(krw_, kro_, mu_w_, mu_o_) ==
    Div[Div[krw_, mu_w_], Add[Div[krw_, mu_w_], Div[kro_, mu_o_]]]

\* fraction_flow with nan=1.0.
fraction_flow_nan_one(krw_, kro_, mu_w_, mu_o_) ==
    LET fw0 == Div[Div[krw_, mu_w_], Add[Div[krw_, mu_w_], Div[kro_, mu_o_]]]
    IN  IF IsNaN(fw0) THEN One ELSE NanToNum[fw0]

fraction_flow(krw_, kro_, mu_w_, mu_o_) ==
    LET lambda_w == Div[krw_, mu_w_]
        lambda_o == Div[kro_, mu_o_]
        fw0 == Div[lambda_w, Add[lambda_w, lambda_o]]
    IN  NanToNum[fw0]

\* ------------------------------------------------------------------------
\* The compute block on the whole sweep
\* ------------------------------------------------------------------------

\* np.linspace(lo, hi, num)
Linspace(lo, hi, num) ==
    LET step == Div[Sub[hi, lo], Dec(num - 1, 1)]
    IN  [i \in 1..num |-> Add[lo, Mul[Dec(i - 1, 1), step]]]

SweepSw == Linspace(Zero, One, GridN + 1)

\* A sequence of <<krw, kro>> pairs as the pair of arrays <<krw, kro>>.
Unzip[rows \in Seq(Num \X Num)] ==
    <<[i \in 1..Len(rows) |-> rows[i][1]], [i \in 1..Len(rows) |-> rows[i][2]]>>

\* krw, kro = func(Sw, ...): numpy applies the model to every element of Sw.
SweepKr(func, key, SwA, Swc_, Sor_, krw0_, kro0_, nw_, no_) ==
    Unzip[[i \in 1..Len(SwA) |->
            CallModel(func, key, SwA[i], Swc_, Sor_, krw0_, kro0_, nw_, no_)]]

SweepFw(krwA, kroA, mu_w_, mu_o_) ==
    [i \in 1..Len(krwA) |-> fraction_flow(krwA[i], kroA[i], mu_w_, mu_o_)]

\* pd.DataFrame({'Sw': Sw, 'krw': krw, 'kro': kro, 'fw': fw})
DataFrame(SwA, krwA, kroA, fwA) ==
    [i \in 1..Len(SwA) |-> [Sw |-> SwA[i], krw |-> krwA[i], kro |-> kroA[i], fw |-> fwA[i]]]

\* The table the compute block builds from the widget values.
ResultTable(key, Swc_, Sor_, krw0_, kro0_, nw_, no_, mu_w_, mu_o_) ==
    LET kr == SweepKr(GetModelFunc(key), key, SweepSw, Swc_, Sor_, krw0_, kro0_, nw_, no_)
    IN  DataFrame(SweepSw, kr[1], kr[2], SweepFw(kr[1], kr[2], mu_w_, mu_o_))

\* ------------------------------------------------------------------------
\* State
\* ------------------------------------------------------------------------

VARIABLES
    mu_w, mu_o, Swc, Sor, krw0, kro0,   \* sidebar number inputs and sliders
    model,                              \* the select box
    nw, no,                             \* Corey exponents, or their fixed defaults
    compute,                            \* the button's value in the current run
    Sw, Sstar, krw, kro, fw,            \* values computed by the current run
    df,                                 \* the result table of the current run
    error,                              \* the exception that ended the current run
    pc                                  \* "script" in the app; the stage of a
                                        \* single kernel evaluation otherwise

vars == <<mu_w, mu_o, Swc, Sor, krw0, kro0, model, nw, no, compute,
          Sw, Sstar, krw, kro, fw, df, error, pc>>

widgets == <<mu_w, mu_o, Swc, Sor, krw0, kro0, model, nw, no>>

\* A name the current run has not bound.
Unset == <<>>

\* Values the widgets are moved to.
MuWChoices == {Dec(1, 2), Dec(2, 1)}
MuOChoices == {Dec(1, 1), Dec(5, 1)}
SwcChoices == {Zero, Dec(2, 10), Dec(5, 10)}
SorChoices == {Dec(2, 10), Dec(3, 10), Dec(5, 10)}
Krw0Choices == {Zero, Dec(3, 10)}
Kro0Choices == {Zero, Dec(9, 10)}
ExpChoices == {Dec(5, 10), Dec(2, 1), Dec(3, 1)}

\* ------------------------------------------------------------------------
\* The script: one run per widget interaction
\* ------------------------------------------------------------------------

\* if compute: the compute block, on the widget values of this run.
ComputeBlock ==
    LET func == GetModelFunc(model')
    IN  IF func = "None"
        THEN /\ Sw' = SweepSw
             /\ krw' = Unset /\ kro' = Unset /\ fw' = Unset /\ df' = Unset
             /\ error' = "TypeError"
        ELSE /\ Sw' = SweepSw
             /\ \E kr \in {SweepKr(func, model', Sw', Swc', Sor', krw0', kro0', nw', no')} :
                    krw' = kr[1] /\ kro' = kr[2]
             /\ fw' = SweepFw(krw', kro', mu_w', mu_o')
             /\ df' = DataFrame(Sw', krw', kro', fw')
             /\ error' = "none"

\* A run without compute that keeps what the run before it computed.
KeepResults ==
    /\ UNCHANGED <<Sw, krw, kro, fw, df>>
    /\ error' = "none"

\* else: only the hint is shown; the run binds no result.
SkipComputeBlock ==
    /\ Sw' = Unset /\ krw' = Unset /\ kro' = Unset /\ fw' = Unset /\ df' = Unset
    /\ error' = "none"

\* One run of the script after the widgets took their new values.
RunScript(pressed) ==
    /\ compute' = pressed
    /\ IF pressed THEN ComputeBlock ELSE SkipComputeBlock
    /\ UNCHANGED <<Sstar, pc>>

SetMuW ==
    /\ \E v \in MuWChoices \ {mu_w} : mu_w' = v
    /\ UNCHANGED <<mu_o, Swc, Sor, krw0, kro0, model, nw, no>>
    /\ RunScript(FALSE)

SetMuO ==
    /\ \E v \in MuOChoices \ {mu_o} : mu_o' = v
    /\ UNCHANGED <<mu_w, Swc, Sor, krw0, kro0, model, nw, no>>
    /\ RunScript(FALSE)

SetSwc ==
    /\ \E v \in SwcChoices \ {Swc} : Swc' = v
    /\ UNCHANGED <<mu_w, mu_o, Sor, krw0, kro0, model, nw, no>>
    /\ RunScript(FALSE)

SetSor ==
    /\ \E v \in SorChoices \ {Sor} : Sor' = v
    /\ UNCHANGED <<mu_w, mu_o, Swc, krw0, kro0, model, nw, no>>
    /\ RunScript(FALSE)

SetKrw0 ==
    /\ \E v \in Krw0Choices \ {krw0} : krw0' = v
    /\ UNCHANGED <<mu_w, mu_o, Swc, Sor, kro0, model, nw, no>>
    /\ RunScript(FALSE)

SetKro0 ==
    /\ \E v \in Kro0Choices \ {kro0} : kro0' = v
    /\ UNCHANGED <<mu_w, mu_o, Swc, Sor, krw0, model, nw, no>>
    /\ RunScript(FALSE)

\* The exponent inputs exist only while 'Corey' is selected; a run that
\* does not show them binds nw, no to 3.0, 2.0, and inputs shown anew
\* start from the same defaults.
SelectModel ==
    /\ \E m \in ModelKeys \ {model} : model' = m
    /\ nw' = Dec(3, 1) /\ no' = Dec(2, 1)
    /\ UNCHANGED <<mu_w, mu_o, Swc, Sor, krw0, kro0>>
    /\ RunScript(FALSE)

SetNw ==
    /\ model = "Corey"
    /\ \E v \in ExpChoices \ {nw} : nw' = v
    /\ UNCHANGED <<mu_w, mu_o, Swc, Sor, krw0, kro0, model, no>>
    /\ RunScript(FALSE)

SetNo ==
    /\ model = "Corey"
    /\ \E v \in ExpChoices \ {no} : no' = v
    /\ UNCHANGED <<mu_w, mu_o, Swc, Sor, krw0, kro0, model, nw>>
    /\ RunScript(FALSE)

PressCompute ==
    /\ UNCHANGED widgets
    /\ RunScript(TRUE)

\* The download buttons are drawn only by a run that computed a table.
PressDownload ==
    /\ compute /\ error = "none"
    /\ UNCHANGED widgets
    /\ RunScript(FALSE)

Init ==
    /\ mu_w = Dec(1, 2) /\ mu_o = Dec(5, 1)
    /\ Swc = Dec(2, 10) /\ Sor = Dec(2, 10)
    /\ krw0 = Dec(3, 10) /\ kro0 = Dec(9, 10)
    /\ model = MODEL_FUNCS[1]
    /\ nw = Dec(3, 1) /\ no = Dec(2, 1)
    /\ compute = FALSE
    /\ Sw = Unset /\ Sstar = Unset /\ krw = Unset /\ kro = Unset /\ fw = Unset
    /\ df = Unset
    /\ error = "none"
    /\ pc = "script"

Next ==
    \/ SetMuW \/ SetMuO \/ SetSwc \/ SetSor \/ SetKrw0 \/ SetKro0
    \/ SelectModel \/ SetNw \/ SetNo
    \/ PressCompute \/ PressDownload

Spec == Init /\ [][Next]_vars

\* ------------------------------------------------------------------------
\* The kernel on one sample: effective_saturation, then the selected model,
\* then fraction_flow, each applied to scalars.  Here Sw, Sstar, krw, kro
\* and fw hold one value instead of an array.
\* ------------------------------------------------------------------------

\* Arguments the functions are applied to.  The functions check nothing, so
\* the samples go beyond what the sidebar lets through: Sw outside [0, 1],
\* Swc + Sor above 1, mobilities above 1.
KernelSwc == {Zero, Dec(2, 10), Dec(5, 10), Dec(8, 10)}
KernelSor == {Zero, Dec(2, 10), Dec(5, 10)}
KernelKrw0 == {Zero, Dec(3, 10), One}
KernelKro0 == {Zero, Dec(9, 10)}
KrSamples == {Zero, Dec(3, 10), One, Dec(5, 2)}

SwSamples(Swc_, Sor_) ==
    {Dec(-1, 2), Zero, Dec(1, 2), One, Dec(3, 2), Swc_, Sub[One, Sor_]}

\* A call of the whole chain on one sample.
InitSample ==
    /\ pc = "input"
    /\ Swc \in KernelSwc /\ Sor \in KernelSor
    /\ Sw \in SwSamples(Swc, Sor)
    /\ krw0 \in KernelKrw0 /\ kro0 \in KernelKro0
    /\ model \in ModelKeys
    /\ IF model = "Corey"
       THEN nw \in ExpChoices /\ no \in ExpChoices
       ELSE nw = Dec(3, 1) /\ no = Dec(2, 1)
    /\ mu_w \in MuWChoices /\ mu_o \in MuOChoices
    /\ Sstar = Unset /\ krw = Unset /\ kro = Unset /\ fw = Unset
    /\ compute = FALSE /\ df = Unset /\ error = "none"

\* A call of fraction_flow alone, on mobilities of the caller's choosing.
InitMobility ==
    /\ pc = "evaluated"
    /\ krw \in KrSamples /\ kro \in KrSamples
    /\ mu_w \in MuWChoices /\ mu_o \in MuOChoices
    /\ Swc = Dec(2, 10) /\ Sor = Dec(2, 10)
    /\ krw0 = Dec(3, 10) /\ kro0 = Dec(9, 10)
    /\ model = MODEL_FUNCS[1] /\ nw = Dec(3, 1) /\ no = Dec(2, 1)
    /\ Sw = Unset /\ Sstar = Unset /\ fw = Unset
    /\ compute = FALSE /\ df = Unset /\ error = "none"

InitKernel == InitSample \/ InitMobility

CallEffectiveSaturation ==
    /\ pc = "input"
    /\ Sstar' = effective_saturation(Sw, Swc, Sor)
    /\ pc' = "normalized"
    /\ UNCHANGED <<widgets, compute, Sw, krw, kro, fw, df, error>>

CallModelFunc ==
    /\ pc = "normalized"
    /\ \E kr \in {CallModel(GetModelFunc(model), model, Sw, Swc, Sor, krw0, kro0, nw, no)} :
            krw' = kr[1] /\ kro' = kr[2]
    /\ pc' = "evaluated"
    /\ UNCHANGED <<widgets, compute, Sw, Sstar, fw, df, error>>

CallFractionFlow ==
    /\ pc = "evaluated"
    /\ fw' = fraction_flow(krw, kro, mu_w, mu_o)
    /\ pc' = "done"
    /\ UNCHANGED <<widgets, compute, Sw, Sstar, krw, kro, df, error>>

NextKernel == CallEffectiveSaturation \/ CallModelFunc \/ CallFractionFlow

SpecKernel == InitKernel /\ [][NextKernel]_vars

\* ------------------------------------------------------------------------
\* The dispatch on a key the registry may lack.  The select box offers the
\* registry's keys only; these runs start from a script state in which
\* model holds any key.
\* ------------------------------------------------------------------------

UnknownKeys == {"Stone"}

InitDispatch ==
    /\ pc = "script"
    /\ model \in ModelKeys \cup UnknownKeys
    /\ mu_w \in MuWChoices /\ mu_o \in MuOChoices
    /\ Swc \in SwcChoices /\ Sor \in SorChoices
    /\ krw0 \in Krw0Choices /\ kro0 \in Kro0Choices
    /\ nw = Dec(3, 1) /\ no = Dec(2, 1)
    /\ compute = FALSE
    /\ Sw = Unset /\ Sstar = Unset /\ krw = Unset /\ kro = Unset /\ fw = Unset
    /\ df = Unset
    /\ error = "none"

NextDispatch == PressCompute \/ PressDownload

SpecDispatch == InitDispatch /\ [][NextDispatch]_vars

\* ------------------------------------------------------------------------
\* Properties
\* ------------------------------------------------------------------------

Between(x, lo, hi) == Le[lo, x] /\ Le[x, hi]

\* Swc_ and Sor_ are values the sliders accept.
InSliderRange(Swc_, Sor_) ==
    Between(Swc_, Zero, Dec(5, 10)) /\ Between(Sor_, Zero, Dec(5, 10))

\* A kernel evaluation has normalized its sample, has evaluated the model,
\* has finished.
Normalized == pc \in {"normalized", "evaluated", "done"} /\ Sstar # Unset
Evaluated == pc \in {"evaluated", "done"} /\ Sstar # Unset
Finished == pc = "done" /\ Sstar # Unset

\* C1: whichever of the three models is evaluated, on any Sw (below 0 and
\* above 1 included), with Swc and Sor in [0, 0.5], krw0 and kro0 in [0, 1]
\* and Corey exponents of at least 0.1, the results satisfy
\* 0 <= krw <= krw0 and 0 <= kro <= kro0.
C1_EndpointBounds ==
    (Evaluated /\ InSliderRange(Swc, Sor))
        => Between(krw, Zero, krw0) /\ Between(kro, Zero, kro0)

\* Wyllie-Gardner on a sample above 1 returns the end point krw0 itself.
C1_Witness ==
    /\ Evaluated /\ model = "Wyllie-Gardner" /\ Sw = Dec(3, 2)
    /\ Swc = Dec(2, 10) /\ Sor = Dec(2, 10)
    /\ krw0 = Dec(3, 10) /\ krw = krw0 /\ kro = Zero

\* The quotient fraction_flow computes before np.nan_to_num.
MobilityQuotient(krw_, kro_, mu_w_, mu_o_) ==
    Div[Div[krw_, mu_w_], Add[Div[krw_, mu_w_], Div[kro_, mu_o_]]]

\* C2: for krw >= 0, kro >= 0, mu_w > 0 and mu_o > 0, fraction_flow returns
\* fw in [0, 1]; fw is exactly 0 when krw = kro = 0 (the quotient 0/0), and
\* is the quotient (krw/mu_w) / (krw/mu_w + kro/mu_o) otherwise.
C2_FractionFlow ==
    (pc = "done" /\ Le[Zero, krw] /\ Le[Zero, kro] /\ Lt[Zero, mu_w] /\ Lt[Zero, mu_o])
        => /\ Between(fw, Zero, One)
           /\ (krw = Zero /\ kro = Zero) => fw = Zero
           /\ ~(krw = Zero /\ kro = Zero) => fw = MobilityQuotient(krw, kro, mu_w, mu_o)

\* fraction_flow was called with both mobilities zero and returned 0.
C2_Witness ==
    pc = "done" /\ Sstar = Unset /\ krw = Zero /\ kro = Zero /\ fw = Zero

\* C3: effective_saturation returns a finite value in [0, 1] for every Sw,
\* Swc and Sor, the degenerate case Swc + Sor = 1 included: never NaN, never
\* an infinity.
C3_NormalizedFinite ==
    Normalized => IsFinite(Sstar) /\ Between(Sstar, Zero, One)

\* Swc = Sor = 0.5 and Sw = Swc: 0 / 1e-12.
C3_Witness ==
    /\ pc = "normalized" /\ Swc = Dec(5, 10) /\ Sor = Dec(5, 10)
    /\ Sw = Dec(5, 10) /\ Sstar = Zero

Computed == compute /\ error = "none"

\* C6: with the Corey model and nw = no, fw never decreases along the
\* sweep: for any two samples with Sw1 <= Sw2, fw(Sw1) <= fw(Sw2), for all
\* accepted Swc, Sor, krw0, kro0, mu_w, mu_o, the tables in which NaN was
\* replaced by 0 included.
C6_CoreyMonotone ==
    (Computed /\ model = "Corey" /\ nw = no)
        => \A i, j \in 1..Len(Sw) : Le[Sw[i], Sw[j]] => Le[fw[i], fw[j]]

\* kro0 = 0: the first sample is 0/0, replaced by 0, and the table rises
\* to 1.
C6_Witness ==
    /\ Computed /\ model = "Corey" /\ nw = no /\ nw = Dec(5, 10)
    /\ kro0 = Zero /\ krw0 # Zero /\ Lt[Add[Swc, Sor], One]
    /\ fw[1] = Zero /\ fw[Len(fw)] = One

\* C7: with Pirson or Wyllie-Gardner selected the table is the same
\* whatever the exponents nw, no are, all else equal; Pirson's table is
\* the one of exponent 2 for both phases, Wyllie-Gardner's the one of
\* exponent 1.5 for both phases.
C7_FixedExponents ==
    (Computed /\ model # "Corey")
        => /\ \A e1, e2 \in ExpChoices :
                df = ResultTable(model, Swc, Sor, krw0, kro0, e1, e2, mu_w, mu_o)
           /\ model = "Pirson"
                => df = ResultTable("Corey", Swc, Sor, krw0, kro0,
                                    Dec(2, 1), Dec(2, 1), mu_w, mu_o)
           /\ model = "Wyllie-Gardner"
                => df = ResultTable("Corey", Swc, Sor, krw0, kro0,
                                    Dec(15, 10), Dec(15, 10), mu_w, mu_o)

\* A Wyllie-Gardner table with both phases flowing somewhere.
C7_Witness ==
    /\ Computed /\ model = "Wyllie-Gardner"
    /\ krw0 # Zero /\ kro0 # Zero /\ Lt[Add[Swc, Sor], One]
    /\ \E i \in 1..Len(df) : Lt[Zero, df[i].fw] /\ Lt[df[i].fw, One]

C9_Independent ==
    /\ Computed
          => df = ResultTable(model, Swc, Sor, krw0, kro0, nw, no, mu_w, mu_o)
    /\ ~compute => df = Unset

\* A compute run after the viscosity and the model were changed.
C9_Witness ==
    /\ Computed /\ df # Unset
    /\ model = "Pirson" /\ mu_w # Dec(1, 2) /\ Sor = Dec(3, 10)

\* np.maximum(a, b)
Max(a, b) == IF Le[a, b] THEN b ELSE a

\* clamp((Sw - Swc) / max(1 - Swc - Sor, eps), 0, 1)
FlooredSaturation(Sw_, Swc_, Sor_) ==
    Clip[Div[Sub[Sw_, Swc_], Max(Sub[Sub[One, Swc_], Sor_], Eps)], Zero, One]

====
